---------------------------- MODULE Spec2Model ----------------------------
(***************************************************************************)
(* CryptoLicenseSystem: the branch client (HardwareLock + main) and the    *)
(* license server (LicenseGenerator + main).                               *)
(*                                                                         *)
(* A std::string / QString is a sequence of one-character strings.  Bytes  *)
(* are naturals in 0..255.  The RSA/SHA-256 primitives of OpenSSL are      *)
(* modelled as an ideal deterministic signature: for a key pair and a      *)
(* message there is exactly one byte string that verifies.                 *)
(***************************************************************************)
EXTENDS Integers, Sequences, FiniteSets, TLC

(***************************************************************************)
(* Characters                                                              *)
(***************************************************************************)
Digits == << "0", "1", "2", "3", "4", "5", "6", "7", "8", "9" >>

Upper ==
    << "A", "B", "C", "D", "E", "F", "G", "H", "I", "J", "K", "L", "M",
       "N", "O", "P", "Q", "R", "S", "T", "U", "V", "W", "X", "Y", "Z" >>

Lower ==
    << "a", "b", "c", "d", "e", "f", "g", "h", "i", "j", "k", "l", "m",
       "n", "o", "p", "q", "r", "s", "t", "u", "v", "w", "x", "y", "z" >>

\* The other characters the inputs use, each with its code.
Others ==
    { <<"\t", 9>>, <<"\n", 10>>, <<"\r", 13>>, <<" ", 32>>, <<"!", 33>>,
      <<"+", 43>>, <<"-", 45>>, <<"/", 47>>, <<":", 58>>, <<"=", 61>>,
      <<"_", 95>>, <<"|", 124>> }

Chars ==
    {Digits[i] : i \in 1..10} \cup {Upper[i] : i \in 1..26}
        \cup {Lower[i] : i \in 1..26} \cup {o[1] : o \in Others}

\* The character code of c (ASCII).
AsciiTable ==
    [c \in Chars |->
        IF \E i \in 1..10 : Digits[i] = c
        THEN 47 + (CHOOSE i \in 1..10 : Digits[i] = c)
        ELSE IF \E i \in 1..26 : Upper[i] = c
        THEN 64 + (CHOOSE i \in 1..26 : Upper[i] = c)
        ELSE IF \E i \in 1..26 : Lower[i] = c
        THEN 96 + (CHOOSE i \in 1..26 : Lower[i] = c)
        ELSE (CHOOSE o \in Others : o[1] = c)[2]]

Ascii(c) == AsciiTable[c]

\* n copies of the character c.
Repeat(c, n) == [i \in 1..n |-> c]

\* std::string::substr(pos, n): clipped at the end of the string.
substr(s, pos, n) ==
    LET last == IF pos + n > Len(s) THEN Len(s) ELSE pos + n
    IN  SubSeq(s, pos + 1, last)

\* s with the character at (1-based) position i replaced by c.
ReplaceAt(s, i, c) == [s EXCEPT ![i] = c]

\* F(x), with x evaluated once however often F uses its argument.
Let(x, F(_)) == CHOOSE r \in {F(v) : v \in {x}} : TRUE

(***************************************************************************)
(* Hexadecimal                                                             *)
(***************************************************************************)
HexLower ==
    << "0", "1", "2", "3", "4", "5", "6", "7",
       "8", "9", "a", "b", "c", "d", "e", "f" >>

\* The test of the detection loop of verifyLicense on one character.
isHexChar_LowerOnly(c) ==
    \/ (Ascii(c) >= 48 /\ Ascii(c) <= 57)
    \/ (Ascii(c) >= 97 /\ Ascii(c) <= 102)

isHexChar(c) ==
    \/ (Ascii(c) >= 48 /\ Ascii(c) <= 57)
    \/ (Ascii(c) >= 97 /\ Ascii(c) <= 102)
    \/ (Ascii(c) >= 65 /\ Ascii(c) <= 70)

\* bool isHex after the loop: no character fails the test (true for "").
isHex(s) == \A i \in 1..Len(s) : isHexChar(s[i])

\* The value strtol gives a base-16 digit, -1 for any other character.
DigitValue(c) ==
    IF Ascii(c) >= 48 /\ Ascii(c) <= 57 THEN Ascii(c) - 48
    ELSE IF Ascii(c) >= 97 /\ Ascii(c) <= 102 THEN Ascii(c) - 87
    ELSE IF Ascii(c) >= 65 /\ Ascii(c) <= 70 THEN Ascii(c) - 55
    ELSE -1

\* strtol(str, nullptr, 16) on a string without sign, blank or 0x prefix:
\* digits are accumulated until the first character that is no digit.
RECURSIVE strtolFrom(_, _, _)
strtolFrom(str, i, acc) ==
    IF i > Len(str) \/ DigitValue(str[i]) < 0 THEN acc
    ELSE strtolFrom(str, i + 1, acc * 16 + DigitValue(str[i]))

strtol16(str) == strtolFrom(str, 1, 0)

\* The length the hexadecimal branch requires, and the bytes it produces.
HexSigLen == 512
RawSigLen == 256

\* The condition of the hexadecimal branch of verifyLicense.
UseHexPath_NoLengthGate(s) == isHex(s)

UseHexPath_ByteLength(s) == isHex(s) /\ Len(s) = RawSigLen

UseHexPath(s) == isHex(s) /\ Len(s) = HexSigLen

\* The hexadecimal branch: signature.resize(256), then for i = 0, 2, 4, ...
\* signature[i / 2] = (unsigned char) strtol(substr(i, 2), 16).  Slots the
\* loop does not reach keep the 0 that resize put there.
HexDecode(s) ==
    [k \in 1..RawSigLen |->
        IF 2 * (k - 1) < Len(s)
        THEN strtol16(substr(s, 2 * (k - 1), 2)) % 256
        ELSE 0]

\* oss << std::hex << std::setw(2) << std::setfill('0') << (int) byte
HexByte_LowNibbleFirst(b) == << HexLower[(b % 16) + 1], HexLower[(b \div 16) + 1] >>

HexByte(b) == << HexLower[(b \div 16) + 1], HexLower[(b % 16) + 1] >>

\* The loop over sig[0 .. sigLen-1] that builds the hex string.
HexEncode(bytes) ==
    Let(bytes, LAMBDA b :
        [j \in 1..(2 * Len(b)) |-> HexByte(b[(j + 1) \div 2])[2 - (j % 2)]])

(***************************************************************************)
(* Base64 (the BIO_f_base64 filter of OpenSSL with BIO_FLAGS_BASE64_NO_NL) *)
(***************************************************************************)
B64_WS == 224
B64_ERROR == 255

\* conv_ascii2bin: 0..63 for a Base64 digit, 0 for '=', and a value with the
\* top bit set for white space, line ends, '-' and every other character.
ascii2bin(c) ==
    IF Ascii(c) >= 65 /\ Ascii(c) <= 90 THEN Ascii(c) - 65
    ELSE IF Ascii(c) >= 97 /\ Ascii(c) <= 122 THEN Ascii(c) - 71
    ELSE IF Ascii(c) >= 48 /\ Ascii(c) <= 57 THEN Ascii(c) + 4
    ELSE IF c = "+" THEN 62
    ELSE IF c = "/" THEN 63
    ELSE IF c = "=" THEN 0
    ELSE IF c = " " \/ c = "\t" THEN B64_WS
    ELSE IF c = "\n" THEN 240
    ELSE IF c = "\r" THEN 241
    ELSE IF c = "-" THEN 242
    ELSE B64_ERROR

\* B64_NOT_BASE64: white space, end of line, carriage return, end of file.
NotBase64(c) == ascii2bin(c) \in {B64_WS, 240, 241, 242}

\* The whole quartets g[1..n] as bytes, 3 for each quartet; ret = -1 when n
\* is no multiple of 4 or a character is no Base64 digit and no '='.
DecodeQuartets(g, n) ==
    LET quad(q) == ascii2bin(g[4 * q + 1]) * 262144 + ascii2bin(g[4 * q + 2]) * 4096
                      + ascii2bin(g[4 * q + 3]) * 64 + ascii2bin(g[4 * q + 4])
        byte(k) == Let(quad((k - 1) \div 3), LAMBDA l :
                       IF (k - 1) % 3 = 0 THEN (l \div 65536) % 256
                       ELSE IF (k - 1) % 3 = 1 THEN (l \div 256) % 256
                       ELSE l % 256)
    IN  IF n % 4 # 0 \/ \E i \in 1..n : ascii2bin(g[i]) >= 128
        THEN [ret |-> -1, bytes |-> << >>]
        ELSE [ret |-> 3 * (n \div 4), bytes |-> [k \in 1..(3 * (n \div 4)) |-> byte(k)]]

\* The number of white-space characters f starts with.
LeadingBlanks(f) ==
    CHOOSE k \in 0..Len(f) :
        /\ \A i \in 1..k : ascii2bin(f[i]) = B64_WS
        /\ (k = Len(f) \/ ascii2bin(f[k + 1]) # B64_WS)

\* The length left of g after trailing non-Base64 characters are stripped
\* while more than 3 characters remain.
StrippedLen(g) ==
    CHOOSE m \in 0..Len(g) :
        /\ \A i \in (m + 1)..Len(g) : NotBase64(g[i])
        /\ (m <= 3 \/ ~NotBase64(g[m]))
        /\ (m >= 3 \/ m = Len(g))

\* EVP_DecodeBlock on the characters f: leading white space is skipped,
\* trailing non-Base64 is stripped, the rest must be whole quartets of valid
\* digits.
EVP_DecodeBlock(f) ==
    Let(SubSeq(f, LeadingBlanks(f) + 1, Len(f)), LAMBDA g :
        Let(StrippedLen(g), LAMBDA n : DecodeQuartets(g, n)))

\* BIO_read through the Base64 filter over a memory buffer holding s (at
\* most one filter block, 1024 characters): the whole quartets of s are
\* decoded in one EVP_DecodeBlock, one byte is dropped for each of up to two
\* trailing '=', and a tail of fewer than 4 characters is discarded.  The
\* value is what BIO_read returns (<= 0 when nothing was decoded) and the
\* bytes it stored.
BIO_read(s) ==
    LET jj == Len(s) - (Len(s) % 4)
        pad == IF jj > 2 /\ s[jj] = "="
               THEN (IF s[jj - 1] = "=" THEN 2 ELSE 1)
               ELSE 0
    IN  Let(EVP_DecodeBlock(SubSeq(s, 1, jj)), LAMBDA d :
            IF Len(s) = 0 \/ d.ret < 0 \/ d.ret - pad <= 0
            THEN [actualLen |-> 0, bytes |-> << >>]
            ELSE [actualLen |-> d.ret - pad, bytes |-> SubSeq(d.bytes, 1, d.ret - pad)])

(***************************************************************************)
(* Hashing and signing (OpenSSL / QCryptographicHash)                      *)
(***************************************************************************)
DigestLen == 32

RECURSIVE WeightedSum(_, _)
WeightedSum(s, i) ==
    IF i > Len(s) THEN 0 ELSE (i * Ascii(s[i]) + WeightedSum(s, i + 1)) % 65521

\* A stand-in for SHA-256: a deterministic digest of DigestLen bytes, whose
\* first three bytes carry the weighted sum and the length, so that two
\* strings of the model have the same digest only if they agree on both.
Sha256(s) ==
    Let(WeightedSum(s, 1), LAMBDA w :
        [k \in 1..DigestLen |->
            IF k = 1 THEN w \div 256
            ELSE IF k = 2 THEN w % 256
            ELSE IF k = 3 THEN Len(s) % 256
            ELSE (w * (2 * k + 1) + 13 * Len(s) + k) % 256])

\* A key file is [kind, id, bytes]: kind is "missing", "garbage" (present,
\* no PEM key in it) or "key"; id names the key pair and bytes is the size of
\* the RSA modulus (256 for RSA-2048).
KeyFile(kind, id, bytes) == [kind |-> kind, id |-> id, bytes |-> bytes]

\* The PKCS#1 v1.5 signature of msg: one string of key.bytes bytes, a
\* function of the digest of msg (its first DigestLen bytes) and of the
\* key (the rest), different for different digests and for different keys.
RSASign(key, msg) ==
    Let(Sha256(msg), LAMBDA h :
        [i \in 1..key.bytes |->
            IF i <= DigestLen THEN (h[i] + 7 * i) % 256
            ELSE (key.id * 37 + 7 * i) % 256])

\* fopen(path, "r") succeeds.
CanOpen(file) == file.kind # "missing"

\* PEM_read_PUBKEY / PEM_read_PrivateKey return a key.
CanParse(file) == file.kind = "key"

\* EVP_VerifyFinal: 1 for the signature of the digested message under the
\* key, 0 for any other byte string, -1 on an internal error.
EVP_VerifyFinal(fault, msg, sig, pubKey) ==
    IF fault = "verify_final" THEN -1
    ELSE IF sig = RSASign(pubKey, msg) THEN 1
    ELSE 0

(***************************************************************************)
(* HardwareLock::verifyLicense                                             *)
(***************************************************************************)
\* The places where a step of verifyLicense can fail for a reason outside
\* its arguments: an allocation or an OpenSSL call that reports an error.
VerifyFaults ==
    {"none", "b64_new", "mem_buf", "bad_alloc", "ctx_new", "verify_init", "verify_final"}

\* return (result == 1)
ResultIsMatch_NonZero(result) == result # 0

ResultIsMatch(result) == result = 1

\* if (actualLen <= 0) return false
DecodeFailed_NegativeOnly(actualLen) == actualLen < 0

DecodeFailed(actualLen) == actualLen <= 0

\* What one return path of verifyLicense leaves behind: the value returned,
\* the branch that decoded the signature, the decoded bytes, the statement
\* that returned, the OpenSSL/libc calls made, and the handles acquired and
\* released.
VerifyReturn(ret, path, signature, stage, calls, acquired, released) ==
    [ret |-> ret, path |-> path, signature |-> signature, stage |-> stage,
     calls |-> calls, acquired |-> acquired, released |-> released]

\* The part of verifyLicense after the signature bytes are known.
VerifyDecoded(hash, signature, publicKeyFile, fault, path, calls, acquired, released) ==
    IF ~CanOpen(publicKeyFile)
    THEN VerifyReturn(FALSE, path, signature, "fopen",
                      calls \o <<"fopen">>, acquired, released)
    ELSE IF ~CanParse(publicKeyFile)
    THEN VerifyReturn(FALSE, path, signature, "PEM_read_PUBKEY",
                      calls \o <<"fopen", "PEM_read_PUBKEY">>,
                      acquired \cup {"pubKeyFile"}, released \cup {"pubKeyFile"})
    ELSE IF fault = "ctx_new"
    THEN VerifyReturn(FALSE, path, signature, "EVP_MD_CTX_new",
                      calls \o <<"fopen", "PEM_read_PUBKEY", "EVP_MD_CTX_new">>,
                      acquired \cup {"pubKeyFile", "pubKey"},
                      released \cup {"pubKeyFile", "pubKey"})
    ELSE IF fault = "verify_init"
    THEN VerifyReturn(FALSE, path, signature, "EVP_VerifyInit_ex",
                      calls \o <<"fopen", "PEM_read_PUBKEY", "EVP_MD_CTX_new",
                                 "EVP_VerifyInit_ex">>,
                      acquired \cup {"pubKeyFile", "pubKey", "ctx"},
                      released \cup {"pubKeyFile", "pubKey", "ctx"})
    ELSE LET result == EVP_VerifyFinal(fault, hash, signature, publicKeyFile)
         IN  VerifyReturn(ResultIsMatch(result), path, signature, "EVP_VerifyFinal",
                      calls \o <<"fopen", "PEM_read_PUBKEY", "EVP_MD_CTX_new",
                                 "EVP_VerifyInit_ex", "EVP_VerifyUpdate",
                                 "EVP_VerifyFinal">>,
                      acquired \cup {"pubKeyFile", "pubKey", "ctx"},
                      released \cup {"pubKeyFile", "pubKey", "ctx"})

verifyLicense(hash, signatureBase64, publicKeyFile, fault) ==
    IF UseHexPath(signatureBase64)
    THEN VerifyDecoded(hash, HexDecode(signatureBase64), publicKeyFile, fault,
                       "hex", <<"strtol">>, {}, {})
    ELSE IF fault = "b64_new"
    THEN VerifyReturn(FALSE, "base64", << >>, "BIO_new", <<"BIO_new">>, {}, {})
    ELSE IF fault = "mem_buf"
    THEN VerifyReturn(FALSE, "base64", << >>, "BIO_new_mem_buf",
                      <<"BIO_new", "BIO_new_mem_buf">>, {"b64"}, {"b64"})
    ELSE IF fault = "bad_alloc"
    THEN VerifyReturn(FALSE, "base64", << >>, "catch",
                      <<"BIO_new", "BIO_new_mem_buf", "BIO_push">>,
                      {"b64", "bio"}, {"b64", "bio"})
    ELSE LET rd == BIO_read(signatureBase64)
         IN  IF DecodeFailed(rd.actualLen)
             THEN VerifyReturn(FALSE, "base64", << >>, "BIO_read",
                      <<"BIO_new", "BIO_new_mem_buf", "BIO_push", "BIO_read">>,
                      {"b64", "bio"}, {"b64", "bio"})
             ELSE VerifyDecoded(hash, rd.bytes, publicKeyFile, fault, "base64",
                      <<"BIO_new", "BIO_new_mem_buf", "BIO_push", "BIO_read">>,
                      {"b64", "bio"}, {"b64", "bio"})

(***************************************************************************)
(* The license record (JSON) and the files                                 *)
(***************************************************************************)
JsonString(s) == [type |-> "string", str |-> s]

\* A JSON value that is no string (a number, null, an object ...).
JsonNumber == [type |-> "number", str |-> << >>]

\* license.lic is [kind, members]: "missing", "unreadable" (exists, cannot
\* be opened), "invalid" (not JSON), "array" (JSON, top level no object) or
\* "object" with its members, a function from keys to JSON values.
LicenseFile(kind, members) == [kind |-> kind, members |-> members]

NoMembers == [k \in {} |-> JsonNumber]

\* hardware_id.txt is [exists, text].
TextFile(exists, text) == [exists |-> exists, text |-> text]

\* QJsonObject::operator[](key).toString(): the string, or "" when the key
\* is absent or its value is no string.
toString(obj, key) ==
    IF key \in DOMAIN obj.members /\ obj.members[key].type = "string"
    THEN obj.members[key].str
    ELSE << >>

\* std::getline(file, line): the text up to the first line feed.
getline(text) ==
    IF \E i \in 1..Len(text) : text[i] = "\n"
    THEN SubSeq(text, 1, (CHOOSE i \in 1..Len(text) :
                            text[i] = "\n" /\ \A j \in 1..(i - 1) : text[j] # "\n") - 1)
    ELSE text

(***************************************************************************)
(* LicenseGenerator::generateLicense                                       *)
(***************************************************************************)
\* unsigned char sig[256]
SigBufLen == 256

IssueFaults == {"none", "sign_final", "out_open"}

\* licenseJson after both assignments.
LicenseJson_Fingerprint(hardwareId, hexSignature) ==
    [k \in {"hardwareFingerprint", "signature"} |->
        IF k = "hardwareFingerprint" THEN JsonString(hardwareId) ELSE JsonString(hexSignature)]

LicenseJson(hardwareId, hexSignature) ==
    [k \in {"hardwareId", "signature"} |->
        IF k = "hardwareId" THEN JsonString(hardwareId) ELSE JsonString(hexSignature)]

\* The data handed to EVP_SignUpdate.
dataToSign_Trimmed(hardwareId) ==
    SelectSeq(hardwareId, LAMBDA c : c \notin {" ", "\t", "\r", "\n"})

dataToSign(hardwareId) == hardwareId

\* What one run of generateLicense leaves behind: whether it returned at
\* all, the value returned, the statement it ended at, licenseJson, the
\* output file, and the handles acquired and released.
IssueReturn(crashed, ret, stage, json, out, acquired, released) ==
    [crashed |-> crashed, ret |-> ret, stage |-> stage, json |-> json, out |-> out,
     acquired |-> acquired, released |-> released]

\* The output file when the run ends at stage: std::ofstream is constructed
\* after the last failure return, so only a run that got to "return" has
\* touched it, and only if the file could be opened.
FileAt_OpenedOnEntry(stage, fault, out, json) ==
    IF stage = "return" /\ fault # "out_open" THEN LicenseFile("object", json)
    ELSE LicenseFile("invalid", NoMembers)

FileAt(stage, fault, out, json) ==
    IF stage = "return" /\ fault # "out_open" THEN LicenseFile("object", json) ELSE out

\* The outcomes of generateLicense.  out is the output file before the call.
\* A key whose signature is longer than sig[] makes EVP_SignFinal write past
\* the array: undefined behaviour, of which the run may die before the file
\* is opened, die on return after the file is written, or go through.
generateLicense(hardwareId, privateKeyFile, out, fault) ==
    LET End(crashed, ret, stage, json, acquired, released) ==
            IssueReturn(crashed, ret, stage, json, FileAt(stage, fault, out, json),
                        acquired, released)
    IN
    IF ~CanOpen(privateKeyFile)
    THEN {End(FALSE, FALSE, "fopen", NoMembers, {}, {})}
    ELSE IF ~CanParse(privateKeyFile)
    THEN {End(FALSE, FALSE, "PEM_read_PrivateKey", NoMembers,
              {"privKeyFile"}, {"privKeyFile"})}
    ELSE IF fault = "sign_final"
    THEN {End(FALSE, FALSE, "EVP_SignFinal", NoMembers,
              {"privKeyFile", "privateKey", "ctx"}, {"privKeyFile", "ctx"})}
    ELSE LET sig == RSASign(privateKeyFile, dataToSign(hardwareId))
             json == LicenseJson(hardwareId, HexEncode(sig))
             all == {"privKeyFile", "privateKey", "ctx"}
             done == End(FALSE, TRUE, "return", json, all, all)
         IN  IF Len(sig) <= SigBufLen
             THEN {done}
             ELSE {done,
                   End(TRUE, FALSE, "return", json, all, all),
                   End(TRUE, FALSE, "EVP_SignFinal", NoMembers, all, {"privKeyFile"})}

\* main of the license server: exit code and the run of generateLicense.
\* hardware_id.txt missing ends the run before generateLicense.
IssuerMain(hardwareIdFile, privateKeyFile, out, fault) ==
    IF ~hardwareIdFile.exists
    THEN {[exit |-> 1, called |-> FALSE, hardwareId |-> << >>,
           gen |-> IssueReturn(FALSE, FALSE, "not_called", NoMembers, out, {}, {})]}
    ELSE LET hardwareId == getline(hardwareIdFile.text)
         IN  {[exit |-> IF g.crashed THEN 134 ELSE IF g.ret THEN 0 ELSE 1,
               called |-> TRUE, hardwareId |-> hardwareId, gen |-> g] :
                  g \in generateLicense(hardwareId, privateKeyFile, out, fault)}

(***************************************************************************)
(* The branch client: HardwareLock::getHardwareFingerprint and main        *)
(***************************************************************************)
\* hw is [mac, disk, cpu], the three identifiers the queries returned.
getHardwareFingerprint(hw) ==
    HexEncode(Sha256(hw.mac \o <<"|">> \o hw.disk \o <<"|">> \o hw.cpu))

\* licenseFingerprint after the backward-compatibility fallback.
licenseFingerprintOf_LegacyFirst(obj) ==
    IF toString(obj, "hardwareId") = << >>
    THEN toString(obj, "hardwareFingerprint")
    ELSE toString(obj, "hardwareId")

licenseFingerprintOf_NoFallback(obj) == toString(obj, "hardwareFingerprint")

licenseFingerprintOf(obj) ==
    IF toString(obj, "hardwareFingerprint") = << >>
    THEN toString(obj, "hardwareId")
    ELSE toString(obj, "hardwareFingerprint")

\* if (licenseFingerprint.isEmpty() || signature.isEmpty())
MissingValue_FingerprintOnly(licenseFingerprint, signature) == licenseFingerprint = << >>

MissingValue(licenseFingerprint, signature) ==
    licenseFingerprint = << >> \/ signature = << >>

\* if (localFingerprint != licenseFingerprint)
FingerprintMismatch_Never(localFingerprint, licenseFingerprint) == FALSE

FingerprintMismatch(localFingerprint, licenseFingerprint) ==
    localFingerprint # licenseFingerprint

\* The outcome main reports when a check fails: the message box of the
\* fingerprint comparison and the one of the signature verification.
Diagnosis_InvalidLicense(check) == "signature_invalid"

Diagnosis(check) ==
    IF check = "fingerprint check" THEN "fingerprint_mismatch" ELSE "signature_invalid"

\* The verifyLicense record of a run of main that never called it.
NotCalled == VerifyReturn(FALSE, "none", << >>, "not_called", << >>, {}, {})

ClientFaults == VerifyFaults \cup {"hwid_open"}

\* What one run of main leaves behind: how it ended, the exit code, whether
\* startMainApplication ran, the steps taken in order, the record of
\* verifyLicense, hardware_id.txt, and the two strings read from the license.
ClientReturn(outcome, exit, steps, verify, hardwareIdFile, licenseFingerprint, signature) ==
    [outcome |-> outcome, exit |-> exit,
     started |-> (Len(steps) > 0 /\ steps[Len(steps)] = "startMainApplication"),
     steps |-> steps, verify |-> verify, hardwareIdFile |-> hardwareIdFile,
     licenseFingerprint |-> licenseFingerprint, signature |-> signature]

ClientMain(hw, license, publicKeyFile, hardwareIdFile, fault) ==
    LET localFingerprint == getHardwareFingerprint(hw)
        s0 == <<"getHardwareFingerprint", "licenseFile.exists">>
    IN
    IF license.kind = "missing"
    THEN ClientReturn("license_required", 1, s0 \o <<"write hardware_id.txt">>, NotCalled,
                      IF fault = "hwid_open" THEN hardwareIdFile
                      ELSE TextFile(TRUE, localFingerprint \o <<"\n">>),
                      << >>, << >>)
    ELSE IF license.kind = "unreadable"
    THEN ClientReturn("cannot_open", 1, s0 \o <<"file.open">>, NotCalled,
                      hardwareIdFile, << >>, << >>)
    ELSE IF license.kind # "object"
    THEN ClientReturn("invalid_json", 1, s0 \o <<"file.open", "fromJson">>, NotCalled,
                      hardwareIdFile, << >>, << >>)
    ELSE
    LET licenseFingerprint == licenseFingerprintOf(license)
        signature == toString(license, "signature")
        s1 == s0 \o <<"file.open", "fromJson", "missing value check">>
        s2 == s1 \o <<"fingerprint check">>
        s3 == s2 \o <<"QFile::exists public_key.pem">>
    IN
    IF MissingValue(licenseFingerprint, signature)
    THEN ClientReturn("missing_fields", 1, s1, NotCalled, hardwareIdFile,
                      licenseFingerprint, signature)
    ELSE IF FingerprintMismatch(localFingerprint, licenseFingerprint)
    THEN ClientReturn(Diagnosis("fingerprint check"), 1, s2, NotCalled, hardwareIdFile,
                      licenseFingerprint, signature)
    ELSE IF ~CanOpen(publicKeyFile)
    THEN ClientReturn("no_public_key", 1, s3, NotCalled, hardwareIdFile,
                      licenseFingerprint, signature)
    ELSE LET v == verifyLicense(localFingerprint, signature, publicKeyFile, fault)
         IN  IF v.ret
             THEN ClientReturn("started", 0,
                      s3 \o <<"verifyLicense", "startMainApplication">>, v,
                      hardwareIdFile, licenseFingerprint, signature)
             ELSE ClientReturn(Diagnosis("verifyLicense"), 1, s3 \o <<"verifyLicense">>, v,
                      hardwareIdFile, licenseFingerprint, signature)

(***************************************************************************)
(* The identifier queries of HardwareLock                                  *)
(***************************************************************************)
\* process.waitForFinished(5000)
TimeoutMs == 5000

isspace(c) == c \in {" ", "\t", "\n", "\r"}

\* QByteArray::trimmed(): white space removed from both ends.
trimmed(s) ==
    IF \A i \in 1..Len(s) : isspace(s[i]) THEN << >>
    ELSE LET a == CHOOSE i \in 1..Len(s) : ~isspace(s[i]) /\ \A j \in 1..(i - 1) : isspace(s[j])
             b == CHOOSE i \in 1..Len(s) : ~isspace(s[i]) /\ \A j \in (i + 1)..Len(s) : isspace(s[j])
         IN  SubSeq(s, a, b)

\* serialNumber.erase(std::remove_if(..., isspace ...), end)
removeSpaces(s) == SelectSeq(s, LAMBDA c : ~isspace(c))

\* std::string::find(pat): the first position (from 0) where pat occurs, -1
\* (npos) when it does not.
find(s, pat) ==
    LET hits == {i \in 0..(Len(s) - Len(pat)) : SubSeq(s, i + 1, i + Len(pat)) = pat}
    IN  IF hits = {} THEN -1 ELSE CHOOSE i \in hits : \A j \in hits : i <= j

\* The lines successive std::getline calls read from s.
RECURSIVE LinesOf(_)
LinesOf(s) ==
    IF s = << >> THEN << >>
    ELSE LET first == getline(s)
         IN  <<first>> \o (IF Len(first) = Len(s) THEN << >>
                           ELSE LinesOf(SubSeq(s, Len(first) + 2, Len(s))))

\* An external command is [ms, exitCode, output]: the time it runs, the code
\* it exits with and what it writes to standard output.  Output is written
\* as the command starts; a command that cannot be started writes nothing.
Command(ms, exitCode, output) == [ms |-> ms, exitCode |-> exitCode, output |-> output]

\* waitForFinished(5000) returned because the process finished.
Finished(cmd) == cmd.ms < TimeoutMs

\* QProcess::exitCode(): the exit code of the last process that finished; 0
\* while the process started by this QProcess has not finished.
exitCode(cmd) == IF Finished(cmd) THEN cmd.exitCode ELSE 0

executeCommand(cmd) ==
    IF exitCode(cmd) = 0 THEN trimmed(cmd.output) ELSE << >>

Platforms == {"win32", "linux", "apple", "other"}

UNKNOWN_DISK == <<"U", "N", "K", "N", "O", "W", "N", "_", "D", "I", "S", "K">>

UNKNOWN_CPU == <<"U", "N", "K", "N", "O", "W", "N", "_", "C", "P", "U">>

ZERO_MAC == <<"0", "0", ":", "0", "0", ":", "0", "0", ":", "0", "0", ":", "0", "0", ":", "0", "0">>

VolMarker == <<"V", "o", "l", "u", "m", "e", " ", "S", "e", "r", "i", "a", "l", " ", "N", "u", "m", "b", "e", "r", " ", "i", "s", " ">>

\* The first non-empty line after the header line of the wmic output.
wmicSerial(output) ==
    LET lines == LinesOf(output)
        rest == {i \in 2..Len(lines) : lines[i] # << >>}
    IN  IF rest = {} THEN << >> ELSE lines[CHOOSE i \in rest : \A j \in rest : i <= j]

\* c1 and c2 are the first and the second command of the platform, file is
\* /sys/block/sda/device/serial.
diskSerialRaw(platform, c1, c2, file) ==
    IF platform = "win32"
    THEN LET output == executeCommand(c1)
             serial == IF output # << >> THEN wmicSerial(output) ELSE << >>
         IN  IF serial # << >> THEN serial
             ELSE LET vol == executeCommand(c2)
                      pos == find(vol, VolMarker)
                  IN  IF pos # -1 THEN substr(vol, pos + 24, 9) ELSE << >>
    ELSE IF platform = "linux"
    THEN LET a == executeCommand(c1)
         IN  IF a # << >> THEN a
             ELSE LET b == executeCommand(c2)
                  IN  IF b # << >> THEN b
                      ELSE IF file.exists THEN getline(file.text) ELSE << >>
    ELSE IF platform = "apple"
    THEN LET a == executeCommand(c1)
         IN  IF a # << >> THEN a ELSE executeCommand(c2)
    ELSE << >>

\* return x.empty() ? sentinel : x
orSentinel_None(x, sentinel) == x

orSentinel(x, sentinel) == IF x = << >> THEN sentinel ELSE x

getDiskSerialNumber(platform, c1, c2, file) ==
    orSentinel(removeSpaces(diskSerialRaw(platform, c1, c2, file)), UNKNOWN_DISK)

ProcessorKey == <<"p", "r", "o", "c", "e", "s", "s", "o", "r">>

\* The text after ':' of the first line of /proc/cpuinfo that starts with
\* "processor" and has a ':'.
cpuinfoId(text) ==
    LET lines == LinesOf(text)
        hits == {i \in 1..Len(lines) :
                    find(lines[i], ProcessorKey) = 0 /\ find(lines[i], <<":">>) # -1}
    IN  IF hits = {} THEN << >>
        ELSE LET line == lines[CHOOSE i \in hits : \A j \in hits : i <= j]
             IN  substr(line, find(line, <<":">>) + 1, Len(line))

\* vendor is the CPUID vendor string with its "_" and hex suffix (win32),
\* file is /proc/cpuinfo, c1 and c2 the commands of the platform.
cpuIdRaw(platform, vendor, file, c1, c2) ==
    IF platform = "win32" THEN vendor
    ELSE IF platform = "linux"
    THEN LET a == IF file.exists THEN cpuinfoId(file.text) ELSE << >>
         IN  IF a # << >> THEN a ELSE executeCommand(c1)
    ELSE IF platform = "apple"
    THEN LET a == executeCommand(c1)
         IN  IF a # << >> THEN a ELSE executeCommand(c2)
    ELSE << >>

getCpuId(platform, vendor, file, c1, c2) ==
    orSentinel(removeSpaces(cpuIdRaw(platform, vendor, file, c1, c2)), UNKNOWN_CPU)

\* interfaces is the list QNetworkInterface::allInterfaces() returns, each
\* [loopback, address].
getMacAddress(interfaces) ==
    LET good == {i \in 1..Len(interfaces) :
                    /\ ~interfaces[i].loopback
                    /\ interfaces[i].address # ZERO_MAC
                    /\ interfaces[i].address # << >>}
    IN  IF good = {} THEN ZERO_MAC
        ELSE interfaces[CHOOSE i \in good : \A j \in good : i <= j].address

(***************************************************************************)
(* Inputs                                                                  *)
(***************************************************************************)
\* Machines 0 .. NumMachines-1; machine 0 is the degraded one, where every
\* query returned its sentinel.
NumMachines == 2

\* RSA-2048 key pairs 1 .. NumKeys.
NumKeys == 2

\* Characters from each end of a signature string that tampering touches.
TamperSpan == 3

\* Lengths around HexSigLen that the all-hex inputs take.
LenSlack == 1

Machine(m) ==
    IF m = 0 THEN [mac |-> ZERO_MAC, disk |-> UNKNOWN_DISK, cpu |-> UNKNOWN_CPU]
    ELSE [mac |-> <<"0", "2", ":", "4", "2", ":">> \o HexByte(m),
          disk |-> <<"W", "D", "-">> \o HexByte(m),
          cpu |-> <<"0">>]

Machines == {Machine(m) : m \in 0..(NumMachines - 1)}

Fingerprints == {getHardwareFingerprint(hw) : hw \in Machines}

\* Strings that are no fingerprint of a machine: trailing blank, short.
OddFingerprints == { <<"a", "b", " ">>, <<"a", "b">> }

Rsa2048Keys == {KeyFile("key", id, RawSigLen) : id \in 1..NumKeys}

\* RSA-1024 and RSA-4096.
OtherKeys == {KeyFile("key", 1, 128), KeyFile("key", 1, 512)}

MissingKey == KeyFile("missing", 0, 0)

GarbageKey == KeyFile("garbage", 0, 0)

Base64Digits == Upper \o Lower \o Digits \o <<"+", "/">>

\* Standard Base64 with '=' padding, as `openssl base64 -A` writes it.
Base64Encode(bytes) ==
    LET enc(b) ==
            LET n == Len(b)
                at(i) == IF i <= n THEN b[i] ELSE 0
                char(j) ==
                    LET g == (j - 1) \div 4
                        r == (j - 1) % 4
                        l == at(3 * g + 1) * 65536 + at(3 * g + 2) * 256 + at(3 * g + 3)
                        v == IF r = 0 THEN l \div 262144
                             ELSE IF r = 1 THEN (l \div 4096) % 64
                             ELSE IF r = 2 THEN (l \div 64) % 64
                             ELSE l % 64
                    IN  IF r >= 2 /\ 3 * g + r > n THEN "=" ELSE Base64Digits[v + 1]
            IN  [j \in 1..(4 * ((n + 2) \div 3)) |-> char(j)]
    IN  Let(bytes, enc)

\* c in the other letter case (c itself when it is no letter).
SwapCase(c) ==
    IF \E i \in 1..26 : Lower[i] = c THEN Upper[CHOOSE i \in 1..26 : Lower[i] = c]
    ELSE IF \E i \in 1..26 : Upper[i] = c THEN Lower[CHOOSE i \in 1..26 : Upper[i] = c]
    ELSE c

UpperHex(s) ==
    Let(s, LAMBDA x :
        [i \in 1..Len(x) |-> IF isHexChar_LowerOnly(x[i]) THEN SwapCase(x[i]) ELSE x[i]])

\* The Base64 digit after c (c itself when it is no Base64 digit).
NextBase64(c) ==
    IF \E i \in 1..64 : Base64Digits[i] = c
    THEN Base64Digits[((CHOOSE i \in 1..64 : Base64Digits[i] = c) % 64) + 1]
    ELSE c

ValidHex(key, f) == HexEncode(RSASign(key, f))

\* The encoded signatures handed to verifyLicense: valid ones in the three
\* encodings, all-hex strings around the length gate, and damaged ones.
SignatureInputs ==
    UNION {
        { ValidHex(k, f), UpperHex(ValidHex(k, f)), Base64Encode(RSASign(k, f)) } :
            k \in Rsa2048Keys, f \in Fingerprints }
    \cup { ValidHex(k, f) : k \in OtherKeys, f \in Fingerprints }
    \cup { Repeat("A", n) : n \in {0} \cup ((HexSigLen - LenSlack)..(HexSigLen + LenSlack)) }
    \cup { SubSeq(ValidHex(KeyFile("key", 1, RawSigLen), f) \o Repeat("0", LenSlack), 1, n) :
            n \in (HexSigLen - LenSlack)..(HexSigLen + LenSlack), f \in Fingerprints }
    \cup { ReplaceAt(Repeat("A", HexSigLen), HexSigLen, c) : c \in {"g", "!", "="} }
    \cup { <<"!">>, <<"=", "=", "=", "=">> }

TamperChars == {"0", "7", "a", "F", "g", "Q", "!", "=", "\n"}

\* The positions of s that tampering touches: both ends and the first letter.
TamperPositions(s) ==
    LET letters == {i \in 1..Len(s) : SwapCase(s[i]) # s[i]}
    IN  {i \in 1..Len(s) : i <= TamperSpan \/ i > Len(s) - TamperSpan}
            \cup {i \in letters : \A j \in letters : i <= j}

(***************************************************************************)
(* State                                                                   *)
(***************************************************************************)
VARIABLES
    hw,     \* the client machine: [mac, disk, cpu]
    files,  \* [hardware_id, private_key, public_key, license]
    last    \* the last operation that ran, with its arguments and outcome

vars == <<hw, files, last>>

None == [op |-> "none"]

NoFiles ==
    [hardware_id |-> TextFile(FALSE, << >>), private_key |-> MissingKey,
     public_key |-> MissingKey, license |-> LicenseFile("missing", NoMembers)]

(***************************************************************************)
(* SpecVerify: verifyLicense called directly on the inputs                 *)
(***************************************************************************)
VerifyRecord(op, hash, signature, fault, origHash, origSignature, pos) ==
    [op |-> op, hash |-> hash, signature |-> signature, fault |-> fault,
     v |-> verifyLicense(hash, signature, files.public_key, fault),
     origHash |-> origHash, origSignature |-> origSignature, pos |-> pos]

InitVerify ==
    /\ hw = Machine(0)
    /\ \E pub \in Rsa2048Keys \cup {MissingKey, GarbageKey} :
          files = [NoFiles EXCEPT !.public_key = pub]
    /\ last = None

\* The first call: verifyLicense on one of the inputs.
VerifyCall ==
    \E hash \in Fingerprints, signature \in SignatureInputs, fault \in VerifyFaults :
        /\ last.op = "none"
        /\ last' = VerifyRecord("verifyLicense", hash, signature, fault, hash, signature, 0)
        /\ UNCHANGED <<hw, files>>

\* After a call that returned true: one character of the signature replaced.
TamperSignature ==
    /\ last.op = "verifyLicense"
    /\ last.v.ret
    /\ \E pos \in TamperPositions(last.signature) :
        \E c \in (TamperChars \cup {SwapCase(last.signature[pos]),
                                    NextBase64(last.signature[pos])})
                    \ {last.signature[pos]} :
          \E tampered \in {ReplaceAt(last.signature, pos, c)} :
            last' = VerifyRecord("tamper_signature", last.hash, tampered, last.fault,
                                 last.hash, last.signature, pos)
    /\ UNCHANGED <<hw, files>>

\* After a call that returned true: the fingerprint replaced by another.
SubstituteFingerprint ==
    /\ last.op = "verifyLicense"
    /\ last.v.ret
    /\ \E f \in (Fingerprints \cup OddFingerprints) \ {last.hash} :
            last' = VerifyRecord("substitute_fingerprint", f, last.signature, last.fault,
                                 last.hash, last.signature, 0)
    /\ UNCHANGED <<hw, files>>

NextVerify == VerifyCall \/ TamperSignature \/ SubstituteFingerprint

SpecVerify == InitVerify /\ [][NextVerify]_vars

VerifyOps == {"verifyLicense", "tamper_signature", "substitute_fingerprint"}

\* The sixteen digit values, read off the digit strings rather than codes.
HexChars == {HexLower[i] : i \in 1..16} \cup {SwapCase(HexLower[i]) : i \in 1..16}

HexValue(c) == CHOOSE v \in 0..15 : c = HexLower[v + 1] \/ c = SwapCase(HexLower[v + 1])

\* C2: verifyLicense is fail-closed.  It returns true only when the decoded
\* bytes are the SHA-256 signature of hash under the key read from the
\* public key file and no step reported an error; it returns false when the
\* key file cannot be opened or parsed, when the digest context cannot be
\* set up, when the primitive reports an error or a mismatch, and when
\* Base64 decoding yields no bytes, in which case it stops there: the hex
\* decoder is not tried and no key is loaded.
VerifyFailClosed ==
    last.op \in VerifyOps =>
        /\ last.v.ret =>
              /\ files.public_key.kind = "key"
              /\ last.v.stage = "EVP_VerifyFinal"
              /\ last.v.signature # << >>
              /\ last.v.signature = RSASign(files.public_key, last.hash)
        /\ files.public_key.kind \in {"missing", "garbage"} => ~last.v.ret
        /\ last.fault \in {"ctx_new", "verify_init", "verify_final"} => ~last.v.ret
        /\ (files.public_key.kind = "key"
              /\ last.v.signature # RSASign(files.public_key, last.hash)) => ~last.v.ret
        /\ (last.v.path = "base64" /\ BIO_read(last.signature).actualLen <= 0) =>
              /\ ~last.v.ret
              /\ last.v.stage \in {"BIO_new", "BIO_new_mem_buf", "catch", "BIO_read"}
              /\ last.v.signature = << >>
              /\ \A i \in 1..Len(last.v.calls) :
                    last.v.calls[i] \notin {"strtol", "fopen", "EVP_VerifyFinal"}

\* C2 witness: a Base64 signature that verifies.
VerifyAcceptsBase64 ==
    /\ last.op = "verifyLicense"
    /\ last.v.ret
    /\ last.v.path = "base64"

\* C3: the signature is decoded by the hexadecimal branch exactly when every
\* character is a hex digit and the length is HexSigLen (512); the branch
\* then yields RawSigLen (256) bytes, byte i being 16 times the value of
\* digit 2i plus the value of digit 2i+1.  Every other string, the all-hex
\* ones of other lengths and the empty one included, goes to Base64.
HexDetection ==
    last.op \in VerifyOps =>
        LET s == last.signature
            allHex == \A i \in 1..Len(s) : s[i] \in HexChars
        IN  /\ (last.v.path = "hex") <=> (allHex /\ Len(s) = HexSigLen)
            /\ last.v.path # "hex" =>
                  /\ last.v.path = "base64"
                  /\ last.v.calls[1] = "BIO_new"
            /\ last.v.path = "hex" =>
                  /\ Len(last.v.signature) = RawSigLen
                  /\ \A i \in 0..(RawSigLen - 1) :
                        last.v.signature[i + 1] =
                            16 * HexValue(s[2 * i + 1]) + HexValue(s[2 * i + 2])

\* C3 witness: a 512-character signature in upper-case hex, decoded by the
\* hexadecimal branch and accepted.
HexBranchTaken ==
    /\ last.op = "verifyLicense"
    /\ last.v.path = "hex"
    /\ last.v.ret
    /\ \E i \in 1..Len(last.signature) :
          last.signature[i] \in {"A", "B", "C", "D", "E", "F"}

\* C5 as stated: after a call that returned true, replacing one character
\* of the encoded signature by a different one, or the fingerprint by a
\* different one, makes verifyLicense return false.
TamperAlwaysRejected ==
    last.op \in {"tamper_signature", "substitute_fingerprint"} => ~last.v.ret

\* C5 amended: a different fingerprint is rejected; a signature with one
\* character replaced is accepted only if it still decodes to the same
\* bytes, and for a hex-encoded signature that is exactly when the new
\* character is the same hex digit in the other letter case.
TamperRejectedUnlessSameBytes ==
    /\ last.op = "substitute_fingerprint" => ~last.v.ret
    /\ last.op = "tamper_signature" =>
          LET old == last.origSignature[last.pos]
              new == last.signature[last.pos]
              wasHex == Len(last.origSignature) = HexSigLen
                            /\ \A i \in 1..HexSigLen : last.origSignature[i] \in HexChars
          IN  /\ last.v.ret =>
                    last.v.signature =
                        verifyLicense(last.origHash, last.origSignature,
                                      files.public_key, last.fault).signature
              /\ wasHex =>
                    (last.v.ret <=>
                        (new \in HexChars /\ HexValue(new) = HexValue(old)))

\* C5 witness: a hex digit of a valid signature replaced by another digit.
TamperedDigitRejected ==
    /\ last.op = "tamper_signature"
    /\ last.origSignature[last.pos] \in HexChars
    /\ last.signature[last.pos] \in HexChars
    /\ HexValue(last.signature[last.pos]) # HexValue(last.origSignature[last.pos])
    /\ Len(last.origSignature) = HexSigLen
    /\ ~last.v.ret

(***************************************************************************)
(* SpecClient: the client run on the license files an operator may install *)
(***************************************************************************)
DEADBEEF == <<"d", "e", "a", "d", "b", "e", "e", "f">>

FirstKey == KeyFile("key", 1, RawSigLen)

\* The signature strings of the installed licenses: issued for each machine
\* in hex, in Base64, and two that are no signature.
LicenseSignatures ==
    { ValidHex(FirstKey, f) : f \in Fingerprints }
        \cup { Base64Encode(RSASign(FirstKey, getHardwareFingerprint(Machine(0)))) }
        \cup { DEADBEEF, << >> }

\* The JSON object with the given <<key, value>> pairs.
JsonObject(pairs) ==
    LicenseFile("object", [k \in {p[1] : p \in pairs} |-> (CHOOSE p \in pairs : p[1] = k)[2]])

\* A member with the key, for each value; no member for "absent".
Member(key, values) == {{<<key, v>>} : v \in values} \cup {{}}

InstalledLicenses ==
    { LicenseFile(kind, NoMembers) : kind \in {"unreadable", "invalid", "array"} }
    \cup { JsonObject(a \cup b \cup c) :
            a \in Member("hardwareFingerprint",
                         {JsonNumber, JsonString(<< >>)}
                            \cup {JsonString(f) : f \in Fingerprints}),
            b \in Member("hardwareId", {JsonString(f) : f \in Fingerprints}),
            c \in Member("signature",
                         {JsonNumber} \cup {JsonString(s) : s \in LicenseSignatures}) }

ClientFaultInputs == {"none", "hwid_open", "bad_alloc", "verify_final"}

ClientRecord(fault) ==
    [op |-> "client", fault |-> fault, license |-> files.license,
     c |-> ClientMain(hw, files.license, files.public_key, files.hardware_id, fault)]

\* One run of the client program against the files as they are.
ClientRun ==
    \E fault \in ClientFaultInputs :
        /\ last.op # "client"
        /\ \E r \in {ClientRecord(fault)} :
              /\ last' = r
              /\ files' = [files EXCEPT !.hardware_id = r.c.hardwareIdFile]
        /\ UNCHANGED hw

\* The operator puts a license file next to the client.
InstallLicense ==
    \E doc \in InstalledLicenses :
        /\ last.op = "none"
        /\ files.license.kind = "missing"
        /\ files' = [files EXCEPT !.license = doc]
        /\ last' = [op |-> "install"]
        /\ UNCHANGED hw

InitClient ==
    /\ hw \in Machines
    /\ \E pub \in {FirstKey, KeyFile("key", NumKeys, RawSigLen), MissingKey, GarbageKey} :
          files = [NoFiles EXCEPT !.public_key = pub]
    /\ last = None

NextClient == InstallLicense \/ ClientRun

SpecClient == InitClient /\ [][NextClient]_vars

\* The fingerprint of the machine the client runs on.
LocalFingerprint == getHardwareFingerprint(hw)

\* C1: the application is started only if the fingerprint read from the
\* license equals the local one and verifyLicense, called with the local
\* fingerprint, the license's signature and the public key, returned true;
\* a license whose fingerprint differs ends the run with exit code 1 and
\* without the application, also when its signature is valid for its own
\* fingerprint.
StartOnlyIfMatchAndVerified ==
    last.op = "client" =>
        LET modern == toString(last.license, "hardwareFingerprint")
            read == IF modern = << >> THEN toString(last.license, "hardwareId") ELSE modern
            sig == toString(last.license, "signature")
        IN  /\ last.c.started =>
                  /\ last.license.kind = "object"
                  /\ read = LocalFingerprint
                  /\ last.c.verify.ret
                  /\ last.c.verify =
                        verifyLicense(LocalFingerprint, sig, files.public_key, last.fault)
                  /\ last.c.verify.signature = RSASign(files.public_key, LocalFingerprint)
            /\ (last.license.kind = "object" /\ read # LocalFingerprint) =>
                  /\ ~last.c.started
                  /\ last.c.exit = 1
                  /\ last.c.outcome \in {"missing_fields", "fingerprint_mismatch"}

\* C1 witness: the application started.
ApplicationStarted ==
    /\ last.op = "client"
    /\ last.c.started
    /\ last.c.outcome = "started"

\* What the client did with the license before any use of the signature.
RejectedBeforeCrypto ==
    /\ ~last.c.started
    /\ last.c.exit = 1
    /\ last.c.verify = NotCalled
    /\ \A i \in 1..Len(last.c.steps) :
          last.c.steps[i] \notin {"verifyLicense", "QFile::exists public_key.pem",
                                  "startMainApplication"}

LegacyFieldFallback ==
    last.op = "client" /\ last.license.kind = "object" =>
        LET m == last.license.members
        IN  /\ (DOMAIN m = {"hardwareId", "signature"}) =>
                  last.c = ClientMain(hw,
                              JsonObject({<<"hardwareFingerprint", m["hardwareId"]>>,
                                          <<"signature", m["signature"]>>}),
                              files.public_key,
                              files.hardware_id,
                              last.fault)
            /\ ("hardwareFingerprint" \in DOMAIN m
                  /\ m["hardwareFingerprint"].type = "string"
                  /\ m["hardwareFingerprint"].str # << >>) =>
                  last.c.licenseFingerprint = m["hardwareFingerprint"].str
            /\ ("hardwareId" \in DOMAIN m /\ "hardwareFingerprint" \notin DOMAIN m) =>
                  last.c.licenseFingerprint = m["hardwareId"].str

\* C7 witness: a license with only the legacy field started the application.
LegacyLicenseStarted ==
    /\ last.op = "client"
    /\ last.license.kind = "object"
    /\ DOMAIN last.license.members = {"hardwareId", "signature"}
    /\ last.c.started

\* The place of step in the run of last (0 when the run did not take it).
StepAt(step) ==
    IF \E i \in 1..Len(last.c.steps) : last.c.steps[i] = step
    THEN CHOOSE i \in 1..Len(last.c.steps) : last.c.steps[i] = step
    ELSE 0

\* C11: in every run of the client the local fingerprint is derived first;
\* a run that calls verifyLicense has made the fingerprint comparison
\* before; and a license with both values whose fingerprint differs from
\* the local one ends in the outcome "fingerprint mismatch", which is not
\* the outcome of a failed signature verification and is reached without a
\* call of verifyLicense, while the outcome "signature invalid" is reached
\* only after the comparison found the fingerprints equal.
FingerprintCheckedBeforeSignature ==
    last.op = "client" =>
        LET modern == toString(last.license, "hardwareFingerprint")
            read == IF modern = << >> THEN toString(last.license, "hardwareId") ELSE modern
            sig == toString(last.license, "signature")
        IN  /\ StepAt("getHardwareFingerprint") = 1
            /\ StepAt("verifyLicense") # 0 =>
                  /\ 0 < StepAt("fingerprint check")
                  /\ StepAt("fingerprint check") < StepAt("verifyLicense")
                  /\ last.c.verify # NotCalled
            /\ (last.license.kind = "object" /\ read # << >> /\ sig # << >>
                  /\ read # LocalFingerprint) =>
                  /\ last.c.outcome = "fingerprint_mismatch"
                  /\ StepAt("verifyLicense") = 0
                  /\ last.c.verify = NotCalled
                  /\ last.c.exit = 1
            /\ last.c.outcome = "signature_invalid" =>
                  /\ read = LocalFingerprint
                  /\ StepAt("verifyLicense") # 0
                  /\ ~last.c.verify.ret
            /\ last.c.outcome = "fingerprint_mismatch" => read # LocalFingerprint

\* C11 witness: a license for another machine whose signature is the one
\* issued for this machine ended in the fingerprint mismatch.
MismatchDiagnosedWithLocalSignature ==
    /\ last.op = "client"
    /\ last.license.kind = "object"
    /\ files.public_key = FirstKey
    /\ toString(last.license, "signature") = ValidHex(FirstKey, LocalFingerprint)
    /\ toString(last.license, "hardwareFingerprint") \in Fingerprints \ {LocalFingerprint}
    /\ last.c.outcome = "fingerprint_mismatch"
    /\ last.c.verify = NotCalled

(***************************************************************************)
(* Spec: the client asks for a license, the issuer issues it, the client   *)
(* runs again                                                              *)
(***************************************************************************)
\* A license issued earlier, still lying in the issuer's directory.
OldLicense ==
    JsonObject({<<"hardwareId", JsonString(<<"o", "l", "d">>)>>,
                <<"signature", JsonString(DEADBEEF)>>})

\* What hardware_id.txt holds when an operator writes it by hand: the
\* fingerprint of a machine with or without a final line feed, a string
\* with a trailing blank, an empty file.
RequestTexts ==
    { f \o <<"\n">> : f \in Fingerprints \cup OddFingerprints }
        \cup { getHardwareFingerprint(Machine(0)), << >> }

\* The operator writes hardware_id.txt.
Request ==
    \E text \in RequestTexts :
        /\ last.op = "none"
        /\ files' = [files EXCEPT !.hardware_id = TextFile(TRUE, text)]
        /\ last' = [op |-> "request"]
        /\ UNCHANGED hw

\* One run of the license server.
IssuerRun ==
    \E fault \in IssueFaults :
        /\ last.op \in {"none", "request", "client"}
        /\ \E r \in IssuerMain(files.hardware_id, files.private_key, files.license, fault) :
              /\ last' = [op |-> "issue", fault |-> fault, before |-> files.license, r |-> r]
              /\ files' = [files EXCEPT !.license = r.gen.out]
        /\ UNCHANGED hw

\* After generateLicense returned true: verifyLicense on the fingerprint it
\* was given and the signature string of the record it built.
VerifyIssued ==
    /\ last.op = "issue"
    /\ ~last.r.gen.crashed
    /\ last.r.gen.ret
    /\ \E signature \in {last.r.gen.json["signature"].str} :
          last' = [op |-> "verify_issued",
                   f |-> last.r.hardwareId,
                   signature |-> signature,
                   v |-> verifyLicense(last.r.hardwareId, signature, files.public_key, "none")]
    /\ UNCHANGED <<hw, files>>

\* The key pair is generated once; the public half goes to the client.
Init ==
    /\ hw \in Machines
    /\ \E pair \in Rsa2048Keys \cup OtherKeys \cup {MissingKey, GarbageKey},
          old \in {LicenseFile("missing", NoMembers), OldLicense} :
          files = [NoFiles EXCEPT !.private_key = pair, !.public_key = pair,
                                  !.license = old]
    /\ last = None

Next == ClientRun \/ Request \/ IssuerRun \/ VerifyIssued

Spec == Init /\ [][Next]_vars

\* C4: for every fingerprint string f and every key pair, the signature
\* string generateLicense(f, priv, out) puts into the license record makes
\* verifyLicense(f, that signature, pub) return true.
RoundTrip ==
    last.op = "verify_issued" => last.v.ret

\* C4 witness: a license issued under an RSA-1024 key pair whose signature
\* the client's verifyLicense turned down.
IssuedSignatureRejected ==
    /\ last.op = "verify_issued"
    /\ files.private_key = KeyFile("key", 1, 128)
    /\ files.public_key = files.private_key
    /\ Len(last.signature) = 256
    /\ last.v.path = "base64"
    /\ ~last.v.ret

\* The round trip for the key pairs whose signatures have RawSigLen bytes.
RoundTripRsa2048 ==
    (last.op = "verify_issued" /\ files.private_key.bytes = RawSigLen) =>
        /\ last.v.ret
        /\ last.v.path = "hex"

\* C8: whenever generateLicense returns false, the output license file is
\* as it was before the call: not created if it was missing, not modified
\* if it was there.
IssuerNoOutputOnFailure ==
    (last.op = "issue" /\ last.r.called /\ ~last.r.gen.crashed /\ ~last.r.gen.ret) =>
        /\ last.r.gen.stage \in {"fopen", "PEM_read_PrivateKey", "EVP_SignFinal"}
        /\ last.r.gen.out = last.before
        /\ files.license = last.before
        /\ last.r.exit = 1

\* C8 witness: the signing primitive failed while an older license was there.
SigningFailedOverOldLicense ==
    /\ last.op = "issue"
    /\ last.r.called
    /\ ~last.r.gen.ret
    /\ last.r.gen.stage = "EVP_SignFinal"
    /\ last.before = OldLicense

\* The signature member of json is the lowercase hex of bytes.
HoldsHexOf(json, bytes) ==
    /\ "signature" \in DOMAIN json
    /\ json["signature"].type = "string"
    /\ Len(json["signature"].str) = 2 * Len(bytes)
    /\ \A i \in 1..Len(bytes) :
          /\ json["signature"].str[2 * i - 1] = HexLower[(bytes[i] \div 16) + 1]
          /\ json["signature"].str[2 * i] = HexLower[(bytes[i] % 16) + 1]

AllHandlesReleased ==
    /\ (last.op = "issue" /\ last.r.called /\ ~last.r.gen.crashed) =>
          last.r.gen.released = last.r.gen.acquired
    /\ last.op = "client" => last.c.verify.released = last.c.verify.acquired
    /\ last.op = "verify_issued" => last.v.released = last.v.acquired

\* C12 witness: generateLicense returned false from the failed EVP_SignFinal
\* with the parsed private key still held.
PrivateKeyHeldAfterReturn ==
    /\ last.op = "issue"
    /\ last.fault = "sign_final"
    /\ ~last.r.gen.crashed
    /\ ~last.r.gen.ret
    /\ last.r.gen.stage = "EVP_SignFinal"
    /\ last.r.gen.acquired \ last.r.gen.released = {"privateKey"}

\* The part of C12 that holds: every return path of verifyLicense, and
\* every return path of generateLicense but the one after a failed
\* EVP_SignFinal, has released what it acquired.
HandlesReleasedButAfterSignFailure ==
    /\ (last.op = "issue" /\ last.r.called /\ ~last.r.gen.crashed
          /\ last.r.gen.stage # "EVP_SignFinal") =>
          last.r.gen.released = last.r.gen.acquired
    /\ last.op = "client" => last.c.verify.released = last.c.verify.acquired
    /\ last.op = "verify_issued" => last.v.released = last.v.acquired
    /\ last.op \in VerifyOps => last.v.released = last.v.acquired

\* C13: generateLicense returns true, and the license server exits with 0,
\* only if the output file holds the complete license record, fingerprint
\* and signature; an output file that cannot be opened is not reported as
\* success.
SuccessMeansWritten ==
    (last.op = "issue" /\ last.r.called /\ ~last.r.gen.crashed) =>
        /\ (last.r.gen.ret \/ last.r.exit = 0) =>
              /\ files.license.kind = "object"
              /\ files.license.members = last.r.gen.json
              /\ toString(files.license, "hardwareId") = last.r.hardwareId
              /\ HoldsHexOf(files.license.members,
                            RSASign(files.private_key, last.r.hardwareId))
        /\ last.fault = "out_open" => (~last.r.gen.ret /\ last.r.exit # 0)

\* C13 witness: generateLicense returned true, the server exited with 0, and
\* there is no license file.
SuccessWithoutFile ==
    /\ last.op = "issue"
    /\ last.fault = "out_open"
    /\ last.r.gen.ret
    /\ ~last.r.gen.crashed
    /\ last.r.exit = 0
    /\ last.before.kind = "missing"
    /\ files.license.kind = "missing"

\* The part of C13 that holds: when the output file could be opened, success
\* means the file holds the record built.
SuccessMeansWrittenIfOpened ==
    (last.op = "issue" /\ last.r.called /\ ~last.r.gen.crashed
        /\ last.fault # "out_open" /\ last.r.gen.ret) =>
        /\ last.r.exit = 0
        /\ files.license = LicenseFile("object", last.r.gen.json)

(***************************************************************************)
(* SpecIds: the identifier queries on the answers a machine may give       *)
(***************************************************************************)
\* Interfaces in the list QNetworkInterface::allInterfaces() returns.
MaxInterfaces == 2

\* What a command writes: nothing, a value with blanks around and inside,
\* a wmic table (header, blank line, value), the answer of vol C:.
CommandOutputs ==
    { << >>,
      <<" ", "S", " ", "1", " ", "\n">>,
      <<"H", "\n", "\n", "W", " ", "1", "\n">>,
      VolMarker \o <<"1", "2", "A", "B", "-", "3", "4", "C", "D", "\n">> }

\* Commands that end just before the timeout and commands still running
\* when it strikes, exiting with 0 or 1.
Commands ==
    { Command(ms, code, output) :
        ms \in {TimeoutMs - 1, TimeoutMs}, code \in {0, 1}, output \in CommandOutputs }

\* /sys/block/sda/device/serial or /proc/cpuinfo: missing, empty, with a
\* processor line, with a line that is none, with a serial number.
IdFiles ==
    { TextFile(FALSE, << >>), TextFile(TRUE, << >>),
      TextFile(TRUE, <<"m", "\n">> \o ProcessorKey \o <<"\t", ":", " ", "7", "\n">>),
      TextFile(TRUE, ProcessorKey \o <<"\n">>),
      TextFile(TRUE, <<"S", "N", " ", "5", "\n">>) }

Vendors ==
    { <<"G", "e", "n", "u", "i", "n", "e", "I", "n", "t", "e", "l", "_", "9", "0", "6", "e", "a">>,
      <<"_", "0">> }

Interface(loopback, address) == [loopback |-> loopback, address |-> address]

Interfaces ==
    { Interface(TRUE, ZERO_MAC), Interface(FALSE, ZERO_MAC), Interface(FALSE, << >>),
      Interface(TRUE, Machine(1).mac), Interface(FALSE, Machine(1).mac),
      Interface(FALSE, Machine(2).mac) }

InterfaceLists == UNION { [1..n -> Interfaces] : n \in 0..MaxInterfaces }

RunCommand ==
    \E cmd \in Commands :
        /\ last.op = "none"
        /\ last' = [op |-> "executeCommand", cmd |-> cmd, out |-> executeCommand(cmd)]
        /\ UNCHANGED <<hw, files>>

QueryDisk ==
    \E platform \in Platforms, c1 \in Commands, c2 \in Commands, file \in IdFiles :
        /\ last.op = "none"
        /\ last' = [op |-> "getDiskSerialNumber", platform |-> platform, c1 |-> c1,
                    c2 |-> c2, file |-> file,
                    out |-> getDiskSerialNumber(platform, c1, c2, file)]
        /\ UNCHANGED <<hw, files>>

QueryCpu ==
    \E platform \in Platforms, vendor \in Vendors, file \in IdFiles,
       c1 \in Commands, c2 \in Commands :
        /\ last.op = "none"
        /\ last' = [op |-> "getCpuId", platform |-> platform, vendor |-> vendor,
                    file |-> file, c1 |-> c1, c2 |-> c2,
                    out |-> getCpuId(platform, vendor, file, c1, c2)]
        /\ UNCHANGED <<hw, files>>

QueryMac ==
    \E interfaces \in InterfaceLists :
        /\ last.op = "none"
        /\ last' = [op |-> "getMacAddress", interfaces |-> interfaces,
                    out |-> getMacAddress(interfaces)]
        /\ UNCHANGED <<hw, files>>

InitIds ==
    /\ hw = Machine(0)
    /\ files = NoFiles
    /\ last = None

NextIds == RunCommand \/ QueryDisk \/ QueryCpu \/ QueryMac

SpecIds == InitIds /\ [][NextIds]_vars

\* The command ended in time with exit code 0.
Succeeded(cmd) == cmd.ms < TimeoutMs /\ cmd.exitCode = 0

\* The text has a character that is no white space.
HasValue(text) == \E i \in 1..Len(text) : text[i] \notin {" ", "\t", "\n", "\r"}

\* No source the query of last consults has a value to give.
NoSourceYields ==
    LET dead(cmd) == ~Succeeded(cmd) \/ ~HasValue(cmd.output)
    IN  \/ /\ last.op \in {"getDiskSerialNumber", "getCpuId"}
           /\ last.platform = "other"
        \/ /\ last.op \in {"getDiskSerialNumber", "getCpuId"}
           /\ last.platform = "apple"
           /\ dead(last.c1) /\ dead(last.c2)
        \/ /\ last.op = "getDiskSerialNumber"
           /\ last.platform = "win32"
           /\ dead(last.c1) /\ dead(last.c2)
        \/ /\ last.op = "getDiskSerialNumber"
           /\ last.platform = "linux"
           /\ dead(last.c1) /\ dead(last.c2)
           /\ ~(last.file.exists /\ HasValue(last.file.text))
        \/ /\ last.op = "getCpuId"
           /\ last.platform = "linux"
           /\ dead(last.c1)
           /\ ~(last.file.exists /\ HasValue(last.file.text))
        \/ /\ last.op = "getMacAddress"
           /\ \A i \in 1..Len(last.interfaces) :
                 \/ last.interfaces[i].loopback
                 \/ last.interfaces[i].address \in {ZERO_MAC, << >>}

SentinelOf(op) ==
    IF op = "getDiskSerialNumber" THEN UNKNOWN_DISK
    ELSE IF op = "getCpuId" THEN UNKNOWN_CPU
    ELSE ZERO_MAC

IdQueries == {"getDiskSerialNumber", "getCpuId", "getMacAddress"}

\* C10: the output of a command that timed out or exited non-zero is not
\* used: executeCommand returns the empty string for it; a query with no
\* source that yields a value returns its sentinel; no query returns the
\* empty string.
QueriesDegradeToSentinels ==
    /\ (last.op = "executeCommand" /\ ~Succeeded(last.cmd)) => last.out = << >>
    /\ (last.op \in IdQueries /\ NoSourceYields) => last.out = SentinelOf(last.op)
    /\ last.op \in IdQueries => last.out # << >>

\* The part of C10 that does not rest on the timeout: a non-zero exit in
\* time discards the output, the sentinels stand in when no command ran
\* over time, and no query returns the empty string.
SentinelsWithoutTimeout ==
    LET intime(cmd) == cmd.ms < TimeoutMs
    IN  /\ (last.op = "executeCommand" /\ intime(last.cmd) /\ last.cmd.exitCode # 0) =>
              last.out = << >>
        /\ (last.op \in {"getDiskSerialNumber", "getCpuId"}
              /\ intime(last.c1) /\ intime(last.c2) /\ NoSourceYields) =>
              last.out = SentinelOf(last.op)
        /\ (last.op = "getMacAddress" /\ NoSourceYields) => last.out = ZERO_MAC
        /\ last.op \in IdQueries => last.out # << >>

\* A command still running at the timeout whose output was returned.
TimedOutOutputUsed ==
    /\ last.op = "executeCommand"
    /\ last.cmd.ms >= TimeoutMs
    /\ last.out # << >>

=============================================================================
